---- MODULE Spec2Model ----
\* Medallion ETL on a cloud warehouse: the pipeline of etl_medallion.py, the HTTP
\* service of main.py, the credential resolver and the generator's main run of
\* data_generator.py.
EXTENDS Integers, Sequences, FiniteSets, TLC

\* ------------------------------------------------------------------ bounds

\* Pipeline runs started one after the other from the command line.
MaxRuns == 2
\* Times the landing files are replaced (a new generator upload) during a behaviour.
MaxUploads == 1
\* Runs of the generator's main().
MaxGenRuns == 2

Runs == 1..MaxRuns

\* ------------------------------------------------------------------ values

\* SQL NULL and a present value: a nullable column holds Null or Some(v).
Null == <<>>
Some(v) == <<v>>
IsNull(x) == x = Null

Datasets == <<"bronze", "silver", "gold">>
SourceTables == <<"employees", "products", "sales">>
GoldTables == <<"sales_analytics", "product_metrics", "sales_summary">>
TableNames(layer) == IF layer = 3 THEN GoldTables ELSE SourceTables

\* A table of the warehouse: it exists or not, and holds rows in stored order.
NoTable == [exists |-> FALSE, rows |-> <<>>]
Table(rows) == [exists |-> TRUE, rows |-> rows]

\* A landing file: missing, or a header line followed by one line per record.
NoFile == [exists |-> FALSE, lines |-> <<>>]
HeaderLine == [header |-> TRUE]
File(rows) == [exists |-> TRUE, lines |-> <<HeaderLine>> \o rows]

\* ------------------------------------------------------------------ text

RECURSIVE LTrim(_)
LTrim(s) == IF s # <<>> /\ Head(s) = " " THEN LTrim(Tail(s)) ELSE s

RECURSIVE RTrim(_)
RTrim(s) == IF s # <<>> /\ s[Len(s)] = " " THEN RTrim(SubSeq(s, 1, Len(s) - 1)) ELSE s

\* TRIM(x) of the warehouse's SQL: leading and trailing blanks removed; NULL stays NULL.
TRIM(x) == IF IsNull(x) THEN Null ELSE Some(RTrim(LTrim(x[1])))

LowerChar(c) ==
    CASE c = "A" -> "a"
      [] c = "B" -> "b"
      [] c = "X" -> "x"
      [] OTHER -> c

\* LOWER(x) of the warehouse's SQL; NULL stays NULL.
LOWER(x) == IF IsNull(x) THEN Null ELSE Some([i \in 1..Len(x[1]) |-> LowerChar(x[1][i])])

\* ------------------------------------------------------------------ landing files

Emp(id, fn, em, dept, sal, act) ==
    [employee_id |-> id, first_name |-> Some(fn), last_name |-> Some(<<"x">>),
     email |-> em, department |-> dept, salary |-> sal, hire_date |-> "2024-01-01",
     is_active |-> act]

Prod(id, name, price, act) ==
    [product_id |-> id, product_name |-> name, category |-> "Books",
     price |-> price, is_active |-> act]

Sale(id, pid, rep, qty, amt, ch) ==
    [transaction_id |-> id, product_id |-> pid, sales_rep_id |-> rep,
     quantity |-> qty, total_amount |-> amt, channel |-> ch]

\* A set of files as the generator writes it: lower-case e-mail addresses, positive
\* salaries, prices, quantities and totals, sales of active products.
GeneratedFile(f) ==
    CASE f = "employees" ->
           File(<< Emp("EMP-00001", <<"a">>, Some(<<"a", "@", "x">>), "Sales", 500, TRUE),
                   Emp("EMP-00002", <<"b">>, Some(<<"b", "@", "x">>), "Legal", 700, TRUE) >>)
      [] f = "products" ->
           File(<< Prod("PRD-00001", "alpha", 10, TRUE),
                   Prod("PRD-00002", "beta", 20, FALSE) >>)
      [] f = "sales" ->
           File(<< Sale("TXN-00000001", "PRD-00001", Some("EMP-00001"), 2, 20, "Online"),
                   Sale("TXN-00000002", "PRD-00001", Some("EMP-00001"), 5, 45, "Partner") >>)

\* Files that carry the records the silver filters are there to drop, and text
\* that the cleaning changes.
OtherFile(f) ==
    CASE f = "employees" ->
           File(<< Emp("EMP-00001", <<" ", "A", "b">>, Some(<<" ", "A", "@", "X", " ">>), "Sales", 500, TRUE),
                   Emp("EMP-00002", <<"b">>, Null, "Legal", 700, TRUE),
                   Emp("EMP-00003", <<"x">>, Some(<<"x", "@", "x">>), "Sales", 0, FALSE) >>)
      [] f = "products" ->
           File(<< Prod("PRD-00001", "alpha", 10, TRUE),
                   Prod("PRD-00002", "beta", 20, TRUE),
                   Prod("PRD-00003", "gamma", 0, TRUE) >>)
      [] f = "sales" ->
           File(<< Sale("TXN-00000001", "PRD-00001", Some("EMP-00001"), 2, 20, "Online"),
                   Sale("TXN-00000002", "PRD-00002", Null, 1, 20, "Partner"),
                   Sale("TXN-00000003", "PRD-00001", Some("EMP-00003"), 0, 0, "Online"),
                   Sale("TXN-00000004", "PRD-00009", Some("EMP-00002"), 5, 0 - 50, "Online") >>)

FileNames == {"employees", "products", "sales"}

\* The contents a landing file can have.
FilesOf(f) == {GeneratedFile(f), OtherFile(f)}

\* ------------------------------------------------------------------ SQL statements

\* LoadDataOverwrite without OVERWRITE: LOAD DATA INTO appends to the table.
LoadDataInto(old, file) == Table(old.rows \o Tail(file.lines))

\* LOAD DATA OVERWRITE ... FROM FILES (format = 'CSV', skip_leading_rows = 1):
\* the table is replaced by the file's lines after the header.
LoadDataOverwrite(old, file) == Table(Tail(file.lines))

\* CREATE OR REPLACE TABLE silver.employees AS SELECT ... WHERE email IS NOT NULL AND salary > 0
SilverEmployeeRow(e) ==
    [employee_id |-> e.employee_id, first_name |-> TRIM(e.first_name),
     last_name |-> TRIM(e.last_name), email |-> LOWER(TRIM(e.email)),
     department |-> e.department, salary |-> e.salary, hire_date |-> e.hire_date]

EmployeeFilter(e) == ~IsNull(e.email) /\ e.salary > 0

SilverEmployees(old, bronze) ==
    LET kept == SelectSeq(bronze, EmployeeFilter)
    IN  Table([i \in 1..Len(kept) |-> SilverEmployeeRow(kept[i])])

\* SilverProducts as INSERT INTO an existing table instead of CREATE OR REPLACE.
SilverProductsInsert(old, bronze) == Table(old.rows \o SelectSeq(bronze, LAMBDA p : p.price > 0 /\ p.is_active = TRUE))

\* CREATE OR REPLACE TABLE silver.products AS SELECT * ... WHERE price > 0 AND is_active = true
ProductFilter(p) == p.price > 0 /\ p.is_active = TRUE

SilverProducts(old, bronze) == Table(SelectSeq(bronze, ProductFilter))

\* CREATE OR REPLACE TABLE silver.sales AS SELECT * ... WHERE quantity > 0 AND total_amount > 0
SaleFilter(s) == s.quantity > 0 /\ s.total_amount > 0

SilverSales(old, bronze) == Table(SelectSeq(bronze, SaleFilter))

\* What a LEFT JOIN pairs with one left row, given the right rows m that match it:
\* those rows in order, or a single all-NULL row (written Null) when there is none.
LeftJoinMatches(m) == IF m = <<>> THEN <<Null>> ELSE [i \in 1..Len(m) |-> Some(m[i])]

RECURSIVE Concat(_)
Concat(ss) == IF ss = <<>> THEN <<>> ELSE Head(ss) \o Concat(Tail(ss))

\* a || ' ' || b: NULL when either side is NULL.
FullName(e) ==
    IF IsNull(e.first_name) \/ IsNull(e.last_name) THEN Null
    ELSE Some(e.first_name[1] \o <<" ">> \o e.last_name[1])

AnalyticsRow(s, p, e) ==
    [transaction_id |-> s.transaction_id, quantity |-> s.quantity,
     total_amount |-> s.total_amount,
     product_name |-> IF IsNull(p) THEN Null ELSE Some(p[1].product_name),
     category |-> IF IsNull(p) THEN Null ELSE Some(p[1].category),
     unit_price |-> IF IsNull(p) THEN Null ELSE Some(p[1].price),
     sales_rep |-> IF IsNull(e) THEN Null ELSE FullName(e[1]),
     department |-> IF IsNull(e) THEN Null ELSE Some(e[1].department),
     channel |-> s.channel]

\* gold.sales_analytics: silver.sales LEFT JOIN silver.products LEFT JOIN silver.employees
SalesAnalytics(sales, products, employees) ==
    LET RowsOf(s) ==
            LET ps == LeftJoinMatches(SelectSeq(products, LAMBDA p : p.product_id = s.product_id))
                es == LeftJoinMatches(SelectSeq(employees,
                          LAMBDA e : ~IsNull(s.sales_rep_id) /\ e.employee_id = s.sales_rep_id[1]))
            IN  Concat([i \in 1..Len(ps) |-> [j \in 1..Len(es) |-> AnalyticsRow(s, ps[i], es[j])]])
    IN  Table(Concat([k \in 1..Len(sales) |-> RowsOf(sales[k])]))

RECURSIVE SumOf(_)
SumOf(nums) == IF nums = <<>> THEN 0 ELSE Head(nums) + SumOf(Tail(nums))

\* The first row of each group, in order of first appearance; keys[i] is the
\* group key of rows[i].
RECURSIVE FirstOfGroups(_, _, _)
FirstOfGroups(rows, keys, seen) ==
    IF rows = <<>> THEN <<>>
    ELSE IF Head(keys) \in seen THEN FirstOfGroups(Tail(rows), Tail(keys), seen)
    ELSE <<Head(rows)>> \o FirstOfGroups(Tail(rows), Tail(keys), seen \cup {Head(keys)})

\* gold.product_metrics: silver.products LEFT JOIN silver.sales GROUP BY product
ProductMetrics(products, sales) ==
    LET Key(p) == <<p.product_id, p.product_name, p.category>>
        groups == FirstOfGroups(products, [i \in 1..Len(products) |-> Key(products[i])], {})
        Metric(g) ==
            LET members == SelectSeq(products, LAMBDA p : Key(p) = Key(g))
                joined == SelectSeq(sales, LAMBDA s : s.product_id = g.product_id)
                n == Len(members) * Len(joined)
            IN  [product_id |-> g.product_id, product_name |-> g.product_name,
                 category |-> g.category, total_sales |-> n,
                 total_quantity_sold |->
                     IF n = 0 THEN Null
                     ELSE Some(Len(members) * SumOf([i \in 1..Len(joined) |-> joined[i].quantity])),
                 total_revenue |->
                     IF n = 0 THEN Null
                     ELSE Some(Len(members) * SumOf([i \in 1..Len(joined) |-> joined[i].total_amount]))]
    IN  Table([i \in 1..Len(groups) |-> Metric(groups[i])])

\* gold.sales_summary: silver.sales GROUP BY the grouping columns (the model's sales
\* carry the channel)
SalesSummary(sales) ==
    LET Key(s) == s.channel
        groups == FirstOfGroups(sales, [i \in 1..Len(sales) |-> Key(sales[i])], {})
        Summary(g) ==
            LET members == SelectSeq(sales, LAMBDA s : Key(s) = Key(g))
            IN  [channel |-> g.channel, total_transactions |-> Len(members),
                 total_revenue |-> SumOf([i \in 1..Len(members) |-> members[i].total_amount])]
    IN  Table([i \in 1..Len(groups) |-> Summary(groups[i])])

\* ------------------------------------------------------------------ state

VARIABLES
    landing,      \* the bucket's landing/ files: [file name -> file]
    uploads,      \* how many times a landing file has been replaced
    schemas,      \* the datasets that exist in the warehouse
    tables,       \* the warehouse's tables: [dataset -> [table name -> table]]
    entry,        \* per run: how run_etl was entered ("cli", "http") or "none"
    pc,           \* per run: "idle", "submit", "wait", "verify", "returned", "done"
    layer,        \* per run: the layer run_etl's loop is in (1 bronze, 2 silver, 3 gold)
    idx,          \* per run: the statement of the layer (0 schema, 1..3 tables)
    success,      \* per run: the layer function's local `success`
    overall,      \* per run: run_etl's `overall_success`
    stageResult,  \* per run: what each layer function returned ("none", "true", "false")
    log,          \* per run: the statements submitted, in order, each with its result
    before,       \* per run: the tables as they were when the run started
    written,      \* per run: what each statement that succeeded wrote
    firstLoad,    \* per bronze table: its contents after the first load of the current file
    response      \* per run: the HTTP response of the request that made it

pipelineVars == <<landing, uploads, schemas, tables, entry, pc, layer, idx, success,
                  overall, stageResult, log, before, written, firstLoad, response>>

VARIABLES
    env,          \* the process environment: [variable -> Null or Some(value)]
    fs,           \* the credential files that exist
    credCalls,    \* calls of setup_gcp_credentials so far
    credResult    \* what the last call of setup_gcp_credentials gave

credVars == <<env, fs, credCalls, credResult>>

VARIABLES
    genPc,          \* the generator's main(): "idle", "setup", "generate", "save",
                    \* "upload", "done", "aborted"
    genRuns,        \* runs of main() started so far
    generated,      \* main's employees, products, sales: [file name -> records]
    localFiles,     \* the CSV files in the working directory
    files_created,  \* main's list of the files save_to_csv wrote
    saveAt,         \* which of the three save_to_csv calls is next (1..3)
    uploadAt,       \* the position of the upload loop in files_created
    upload_success, \* main's count of uploads that returned True
    saveResult,     \* per file: what save_to_csv returned in this run
    uploadResult    \* per file: what upload_to_gcs returned in this run

genVars == <<genPc, genRuns, generated, localFiles, files_created, saveAt, uploadAt,
             upload_success, saveResult, uploadResult>>

NoTables == [d \in {"bronze", "silver"} |-> [t \in {"employees", "products", "sales"} |-> NoTable]]
            @@ [d \in {"gold"} |-> [t \in {"sales_analytics", "product_metrics", "sales_summary"} |-> NoTable]]

NoResponse == [code |-> 0, status |-> "none", message |-> "none", suggestion |-> "none",
               layers_processed |-> <<>>]

\* ------------------------------------------------------------------ the warehouse

DatasetOf(l) == Datasets[l]
TableOf(l, k) == TableNames(l)[k]

\* What a statement needs to succeed: the dataset it writes, and the objects it reads.
CanSucceed(l, k, S, T, L) ==
    \/ k = 0
    \/ /\ k > 0
       /\ DatasetOf(l) \in S
       /\ CASE l = 1 -> L[TableOf(1, k)].exists
            [] l = 2 -> "bronze" \in S /\ T["bronze"][TableOf(2, k)].exists
            [] l = 3 ->
                 /\ "silver" \in S
                 /\ T["silver"]["sales"].exists
                 /\ k \in {1, 2} => T["silver"]["products"].exists
                 /\ k = 1 => T["silver"]["employees"].exists

\* The table a table statement writes (l the layer, k in 1..3).
StatementResult(l, k, T, L) ==
    LET old == T[DatasetOf(l)][TableOf(l, k)]
    IN  CASE l = 1 -> LoadDataOverwrite(old, L[TableOf(1, k)])
          [] l = 2 /\ k = 1 -> SilverEmployees(old, T["bronze"]["employees"].rows)
          [] l = 2 /\ k = 2 -> SilverProducts(old, T["bronze"]["products"].rows)
          [] l = 2 /\ k = 3 -> SilverSales(old, T["bronze"]["sales"].rows)
          [] l = 3 /\ k = 1 -> SalesAnalytics(T["silver"]["sales"].rows,
                                              T["silver"]["products"].rows,
                                              T["silver"]["employees"].rows)
          [] l = 3 /\ k = 2 -> ProductMetrics(T["silver"]["products"].rows,
                                              T["silver"]["sales"].rows)
          [] l = 3 /\ k = 3 -> SalesSummary(T["silver"]["sales"].rows)

\* bq.query(sql); job.result(): the statement runs as one unit. A statement that
\* fails changes nothing; CREATE SCHEMA IF NOT EXISTS adds the dataset.
SchemasAfter(l, k, ok, S) == IF ok /\ k = 0 THEN S \cup {DatasetOf(l)} ELSE S

TablesAfter(l, k, ok, T, L) ==
    IF ok /\ k > 0
    THEN [T EXCEPT ![DatasetOf(l)][TableOf(l, k)] = StatementResult(l, k, T, L)]
    ELSE T

\* ------------------------------------------------------------------ run_etl

\* LayerStep with the loop over the table statements left at the first failure.
LayerStepReturnAtFailure(k, succ, ok) ==
    IF ~ok THEN [ret |-> "false", idx |-> k, success |-> FALSE]
    ELSE IF k = 0 THEN [ret |-> "none", idx |-> 1, success |-> TRUE]
    ELSE IF k < 3 THEN [ret |-> "none", idx |-> k + 1, success |-> succ]
    ELSE [ret |-> IF succ THEN "true" ELSE "false", idx |-> k, success |-> succ]

\* LayerStep with a retry: a statement that failed is submitted again.
LayerStepRetry(k, succ, ok) ==
    IF ~ok THEN [ret |-> "none", idx |-> k, success |-> succ]
    ELSE IF k < 3 THEN [ret |-> "none", idx |-> k + 1, success |-> succ]
    ELSE [ret |-> IF succ THEN "true" ELSE "false", idx |-> k, success |-> succ]

\* LayerStep with a failed CREATE SCHEMA treated as a failed table statement: the
\* stage goes on to its tables and reports failure at the end.
LayerStepPastSchema(k, succ, ok) ==
    LET s2 == succ /\ ok
    IN  IF k < 3 THEN [ret |-> "none", idx |-> k + 1, success |-> s2]
        ELSE [ret |-> IF s2 THEN "true" ELSE "false", idx |-> k, success |-> s2]

\* bronze_layer, silver_layer, gold_layer: what the layer function does once
\* run_query has returned `ok` for statement k. A failed CREATE SCHEMA returns False
\* at once; a failed table statement clears `success` and the loop goes on.
\* ret is "none" while the layer function is still running.
LayerStep(k, succ, ok) ==
    IF k = 0
    THEN IF ok THEN [ret |-> "none", idx |-> 1, success |-> TRUE]
         ELSE [ret |-> "false", idx |-> 0, success |-> succ]
    ELSE LET s2 == succ /\ ok
         IN  IF k < 3 THEN [ret |-> "none", idx |-> k + 1, success |-> s2]
             ELSE [ret |-> IF s2 THEN "true" ELSE "false", idx |-> k, success |-> s2]

\* RunEtlStep without the break: the loop goes on to the next layer whatever the
\* layer returned.
RunEtlStepNoBreak(l, ret) ==
    IF l < 3 THEN [pc |-> "submit", layer |-> l + 1, overall |-> ret # "false"]
    ELSE IF ret = "false" THEN [pc |-> "returned", layer |-> l, overall |-> FALSE]
    ELSE [pc |-> "verify", layer |-> l, overall |-> TRUE]

\* run_etl's loop over the layers, once layer l has returned ret: a failed layer
\* breaks the loop; after gold, verify_results runs.
RunEtlStep(l, ret) ==
    IF ret = "false" THEN [pc |-> "returned", layer |-> l, overall |-> FALSE]
    ELSE IF l < 3 THEN [pc |-> "submit", layer |-> l + 1, overall |-> TRUE]
    ELSE [pc |-> "verify", layer |-> l, overall |-> TRUE]

\* OnPipelineFailure with a compensating rollback to the tables the run started from.
RollbackOnPipelineFailure(r, T) == before[r]

\* run_etl's failure branch only prints advice: the tables stay as the statements
\* left them.
OnPipelineFailure(r, T) == T

\* run_etl starts: the first statement is bronze's CREATE SCHEMA.
BeginRun(r, how) ==
    /\ entry' = [entry EXCEPT ![r] = how]
    /\ pc' = [pc EXCEPT ![r] = "submit"]
    /\ layer' = [layer EXCEPT ![r] = 1]
    /\ idx' = [idx EXCEPT ![r] = 0]
    /\ success' = [success EXCEPT ![r] = TRUE]
    /\ overall' = [overall EXCEPT ![r] = TRUE]
    /\ before' = [before EXCEPT ![r] = tables]
    /\ UNCHANGED <<landing, uploads, schemas, tables, stageResult, log, written, firstLoad,
                   response>>

\* Submit without job.result(): the schema statement is left in flight and the
\* layer function goes on to its first table statement.
SubmitNoWait(r) ==
    /\ pc[r] = "submit"
    /\ log' = [log EXCEPT ![r] = Append(@, [layer |-> layer[r], idx |-> idx[r], res |-> "inflight"])]
    /\ IF idx[r] = 0
       THEN /\ idx' = [idx EXCEPT ![r] = 1]
            /\ pc' = pc
       ELSE /\ idx' = idx
            /\ pc' = [pc EXCEPT ![r] = "wait"]
    /\ UNCHANGED <<landing, uploads, schemas, tables, entry, layer, success, overall,
                   stageResult, before, written, firstLoad, response>>

\* run_query: job = bq.query(sql) submits the statement; job.result() then blocks
\* the run until the warehouse has finished it.
Submit(r) ==
    /\ pc[r] = "submit"
    /\ log' = [log EXCEPT ![r] = Append(@, [layer |-> layer[r], idx |-> idx[r], res |-> "inflight"])]
    /\ pc' = [pc EXCEPT ![r] = "wait"]
    /\ UNCHANGED <<landing, uploads, schemas, tables, entry, layer, idx, success, overall,
                   stageResult, before, written, firstLoad, response>>

\* The warehouse finishes the statement in flight, job.result() returns or raises,
\* run_query returns ok, and the layer function and run_etl's loop act on it.
Complete(r, ok) ==
    /\ pc[r] = "wait"
    /\ ok => CanSucceed(layer[r], idx[r], schemas, tables, landing)
    /\ LET l == layer[r]
           k == idx[r]
           ls == LayerStep(k, success[r], ok)
           rs == RunEtlStep(l, ls.ret)
           T1 == TablesAfter(l, k, ok, tables, landing)
           wrote == ok /\ k > 0
       IN  /\ schemas' = SchemasAfter(l, k, ok, schemas)
           /\ tables' = IF ls.ret = "false" THEN OnPipelineFailure(r, T1) ELSE T1
           /\ log' = [log EXCEPT ![r][Len(log[r])].res = IF ok THEN "ok" ELSE "fail"]
           /\ written' = IF wrote
                         THEN [written EXCEPT ![r][DatasetOf(l)][TableOf(l, k)] =
                                   T1[DatasetOf(l)][TableOf(l, k)]]
                         ELSE written
           /\ firstLoad' = IF wrote /\ l = 1
                           THEN [firstLoad EXCEPT ![TableOf(1, k)] =
                                     [n |-> IF @.n = 0 THEN 1 ELSE 2,
                                      table |-> IF @.n = 0 THEN T1["bronze"][TableOf(1, k)]
                                                ELSE @.table]]
                           ELSE firstLoad
           /\ IF ls.ret = "none"
              THEN /\ idx' = [idx EXCEPT ![r] = ls.idx]
                   /\ success' = [success EXCEPT ![r] = ls.success]
                   /\ pc' = [pc EXCEPT ![r] = "submit"]
                   /\ UNCHANGED <<layer, overall, stageResult>>
              ELSE /\ stageResult' = [stageResult EXCEPT ![r][l] = ls.ret]
                   /\ success' = [success EXCEPT ![r] = ls.success]
                   /\ pc' = [pc EXCEPT ![r] = rs.pc]
                   /\ layer' = [layer EXCEPT ![r] = rs.layer]
                   /\ idx' = [idx EXCEPT ![r] = IF rs.pc = "submit" THEN 0 ELSE k]
                   /\ overall' = [overall EXCEPT ![r] = rs.overall]
    /\ UNCHANGED <<landing, uploads, entry, before, response>>

\* verify_results: metadata and COUNT(*) queries over the three datasets, every
\* failure caught and printed; nothing is written.
Verify(r) ==
    /\ pc[r] = "verify"
    /\ pc' = [pc EXCEPT ![r] = "returned"]
    /\ UNCHANGED <<landing, uploads, schemas, tables, entry, layer, idx, success, overall,
                   stageResult, log, before, written, firstLoad, response>>

\* ------------------------------------------------------------------ entry points

\* etl_medallion.py run as a script: run_etl(), one process after the other.
RunEtlMain(r) ==
    /\ pc[r] = "idle"
    /\ \A q \in Runs : q < r => pc[q] = "done"
    /\ BeginRun(r, "cli")

\* The script ends once run_etl has returned, and the process's state ends with it.
Exit(r) ==
    /\ pc[r] = "returned"
    /\ entry[r] = "cli"
    /\ pc' = [pc EXCEPT ![r] = "done"]
    /\ layer' = [layer EXCEPT ![r] = 1]
    /\ idx' = [idx EXCEPT ![r] = 0]
    /\ success' = [success EXCEPT ![r] = TRUE]
    /\ overall' = [overall EXCEPT ![r] = TRUE]
    /\ stageResult' = [stageResult EXCEPT ![r] = [l \in 1..3 |-> "none"]]
    /\ log' = [log EXCEPT ![r] = <<>>]
    /\ before' = [before EXCEPT ![r] = NoTables]
    /\ written' = [written EXCEPT ![r] = NoTables]
    /\ UNCHANGED <<landing, uploads, schemas, tables, entry, firstLoad, response>>

\* A landing file is replaced in the bucket by one with other contents (the
\* generator has uploaded a new one).
ReplaceFile(f, new) ==
    /\ uploads < MaxUploads
    /\ new # landing[f]
    /\ uploads' = uploads + 1
    /\ landing' = [landing EXCEPT ![f] = new]
    /\ firstLoad' = [firstLoad EXCEPT ![f] = [n |-> 0, table |-> NoTable]]
    /\ UNCHANGED <<schemas, tables, entry, pc, layer, idx, success, overall, stageResult,
                   log, before, written, response>>

\* POST /trigger-etl: request.get_json() raises on a body that is not JSON, and the
\* handler's except answers 500; otherwise run_etl() is called.
ErrorResponse(msg) ==
    [code |-> 500, status |-> "error", message |-> msg,
     suggestion |-> "Verifica logs de BigQuery y permisos de GCS", layers_processed |-> <<>>]

SuccessResponse ==
    [code |-> 200, status |-> "success", message |-> "ETL pipeline completed successfully",
     suggestion |-> "none", layers_processed |-> <<"bronze", "silver", "gold">>]

trigger_etl_endpoint(r, jsonBody) ==
    /\ pc[r] = "idle"
    /\ IF jsonBody
       THEN BeginRun(r, "http")
       ELSE /\ pc' = [pc EXCEPT ![r] = "done"]
            /\ entry' = [entry EXCEPT ![r] = "http"]
            /\ response' = [response EXCEPT ![r] = ErrorResponse("Bad Request")]
            /\ UNCHANGED <<landing, uploads, schemas, tables, layer, idx, success, overall,
                           stageResult, log, before, written, firstLoad>>

\* run_etl() has returned without raising: the handler answers 200.
ResponseAfterRunEtl(r) == SuccessResponse

Respond(r) ==
    /\ pc[r] = "returned"
    /\ entry[r] = "http"
    /\ response' = [response EXCEPT ![r] = ResponseAfterRunEtl(r)]
    /\ pc' = [pc EXCEPT ![r] = "done"]
    /\ UNCHANGED <<landing, uploads, schemas, tables, entry, layer, idx, success, overall,
                   stageResult, log, before, written, firstLoad>>

\* ------------------------------------------------------------------ credentials

\* Calls of setup_gcp_credentials in one behaviour.
MaxCredCalls == 2

KeyFile == "service-account-key.json"

\* `if x:` on what os.getenv returns: None and the empty string are both false.
Truthy(v) == v # Null /\ v[1] # ""

\* os.path.exists(path): the two spellings of the key file name one file.
PathExists(path, files) ==
    (IF path = "./service-account-key.json" THEN KeyFile ELSE path) \in files

\* The list `paths` of setup_gcp_credentials.
CredentialPaths(e) ==
    <<Some(KeyFile), Some("./service-account-key.json"), e["GOOGLE_APPLICATION_CREDENTIALS"]>>

\* json.loads and from_service_account_info accept the blob.
JsonValid(text) == text = "{service_account}"

NoCredentials == [source |-> "none", path |-> ""]

\* ResolveSource trying the JSON blob before the credential files.
ResolveSourceJsonFirst(e, files) ==
    LET paths == CredentialPaths(e)
        found == {i \in 1..3 : Truthy(paths[i]) /\ PathExists(paths[i][1], files)}
    IN  IF Truthy(e["K_SERVICE"]) THEN [source |-> "ambient", path |-> ""]
        ELSE IF Truthy(e["GOOGLE_CREDENTIALS_JSON"]) THEN [source |-> "json", path |-> ""]
        ELSE IF found # {}
        THEN [source |-> "file", path |-> paths[CHOOSE i \in found : \A j \in found : i <= j][1]]
        ELSE NoCredentials

\* The branch setup_gcp_credentials takes: K_SERVICE, then the first path of the
\* list that is set and exists, then GOOGLE_CREDENTIALS_JSON, else none.
ResolveSource(e, files) ==
    LET paths == CredentialPaths(e)
        found == {i \in 1..3 : Truthy(paths[i]) /\ PathExists(paths[i][1], files)}
    IN  IF Truthy(e["K_SERVICE"]) THEN [source |-> "ambient", path |-> ""]
        ELSE IF found # {}
        THEN [source |-> "file", path |-> paths[CHOOSE i \in found : \A j \in found : i <= j][1]]
        ELSE IF Truthy(e["GOOGLE_CREDENTIALS_JSON"]) THEN [source |-> "json", path |-> ""]
        ELSE NoCredentials

\* What the call returns or raises: the client constructor may raise (clientOk
\* false), an invalid JSON blob raises, and without a source the function raises
\* "No se encontraron credenciales"; every exception is printed and raised again.
CredentialOutcome(e, files, clientOk) ==
    LET rs == ResolveSource(e, files)
        built == CASE rs.source = "none" -> FALSE
                   [] rs.source = "json" -> JsonValid(e["GOOGLE_CREDENTIALS_JSON"][1]) /\ clientOk
                   [] OTHER -> clientOk
    IN  [outcome |-> IF built THEN "client" ELSE "error", source |-> rs.source,
         path |-> rs.path]

\* os.environ['GOOGLE_APPLICATION_CREDENTIALS'] = path, when a file was found.
EnvAfter(e, files) ==
    LET rs == ResolveSource(e, files)
    IN  IF rs.source = "file"
        THEN [e EXCEPT !["GOOGLE_APPLICATION_CREDENTIALS"] = Some(rs.path)]
        ELSE e

\* setup_gcp_credentials(), of etl_medallion.py (at import) or data_generator.py.
setup_gcp_credentials(clientOk) ==
    /\ credCalls < MaxCredCalls
    /\ credCalls' = credCalls + 1
    /\ credResult' = CredentialOutcome(env, fs, clientOk)
    /\ env' = EnvAfter(env, fs)
    /\ UNCHANGED fs

NoResult == [outcome |-> "none", source |-> "none", path |-> ""]

EnvValues(v) ==
    CASE v = "K_SERVICE" -> {Null, Some(""), Some("etl-pipeline")}
      [] v = "GOOGLE_APPLICATION_CREDENTIALS" ->
           {Null, Some(""), Some("/secrets/key.json"), Some("/nowhere/key.json")}
      [] v = "GOOGLE_CREDENTIALS_JSON" ->
           {Null, Some(""), Some("{service_account}"), Some("not json")}

EnvNames == {"K_SERVICE", "GOOGLE_APPLICATION_CREDENTIALS", "GOOGLE_CREDENTIALS_JSON"}

\* A process whose environment names no credentials, with no credential file.
NoCredentialSetup ==
    /\ env = [v \in EnvNames |-> Null]
    /\ fs = {}
    /\ credCalls = 0
    /\ credResult = NoResult

\* ------------------------------------------------------------------ the generator's main

NoneYet == [f \in FileNames |-> "none"]

\* save_to_csv with the except clause missing: a failed write raises.
save_to_csv_raising(data, ioOk) ==
    IF data = <<>> THEN "false" ELSE IF ioOk THEN "true" ELSE "raise"

\* save_to_csv(data, filename): False without writing when there is no data; else
\* the file is written, and an exception while writing is caught and gives False.
save_to_csv(data, ioOk) ==
    IF data = <<>> THEN "false" ELSE IF ioOk THEN "true" ELSE "false"

\* upload_to_gcs(bucket, source, destination): any exception is caught and gives False.
upload_to_gcs(netOk) == IF netOk THEN "true" ELSE "false"

\* main() starts.
GenStart ==
    /\ genPc \in {"idle", "done", "aborted"}
    /\ genRuns < MaxGenRuns
    /\ genRuns' = genRuns + 1
    /\ genPc' = "setup"
    /\ generated' = [f \in FileNames |-> <<>>]
    /\ files_created' = <<>>
    /\ saveAt' = 1
    /\ uploadAt' = 1
    /\ upload_success' = 0
    /\ saveResult' = NoneYet
    /\ uploadResult' = NoneYet
    /\ UNCHANGED <<localFiles, landing, credVars>>

\* main: setup_gcp_credentials(); what it raises ends the run.
GenSetup(clientOk) ==
    /\ genPc = "setup"
    /\ credCalls' = credCalls + 1
    /\ credResult' = CredentialOutcome(env, fs, clientOk)
    /\ env' = EnvAfter(env, fs)
    /\ genPc' = IF CredentialOutcome(env, fs, clientOk).outcome = "client"
                THEN "generate" ELSE "aborted"
    /\ UNCHANGED <<fs, landing, genRuns, generated, localFiles, files_created, saveAt,
                   uploadAt, upload_success, saveResult, uploadResult>>

\* main: generate_employees, generate_products, generate_sales with CONFIG's counts.
GenGenerate ==
    /\ genPc = "generate"
    /\ generated' = [f \in FileNames |-> Tail(GeneratedFile(f).lines)]
    /\ genPc' = "save"
    /\ UNCHANGED <<landing, credVars, genRuns, localFiles, files_created, saveAt, uploadAt,
                   upload_success, saveResult, uploadResult>>

\* main: the next `if save_to_csv(...): files_created.append(...)`. A write that
\* fails may leave the file as it was or emptied by open(..., 'w').
GenSave(ioOk, emptied) ==
    /\ genPc = "save"
    /\ LET f == SourceTables[saveAt]
           res == save_to_csv(generated[f], ioOk)
       IN  /\ saveResult' = [saveResult EXCEPT ![f] = res]
           /\ localFiles' =
                  CASE res = "true" -> [localFiles EXCEPT ![f] = File(generated[f])]
                    [] res # "true" /\ generated[f] # <<>> /\ emptied ->
                         [localFiles EXCEPT ![f] = [exists |-> TRUE, lines |-> <<>>]]
                    [] OTHER -> localFiles
           /\ files_created' = IF res = "true" THEN Append(files_created, f) ELSE files_created
           /\ genPc' = IF res = "raise" THEN "aborted" ELSE IF saveAt = 3 THEN "upload" ELSE "save"
           /\ saveAt' = IF res # "raise" /\ saveAt < 3 THEN saveAt + 1 ELSE saveAt
    /\ UNCHANGED <<landing, credVars, genRuns, generated, uploadAt, upload_success,
                   uploadResult>>

\* main: one turn of `for local_file, gcs_path in files_created`.
GenUpload(netOk) ==
    /\ genPc = "upload"
    /\ uploadAt <= Len(files_created)
    /\ LET f == files_created[uploadAt]
           res == upload_to_gcs(netOk)
       IN  /\ uploadResult' = [uploadResult EXCEPT ![f] = res]
           /\ landing' = IF res = "true" THEN [landing EXCEPT ![f] = localFiles[f]] ELSE landing
           /\ upload_success' = IF res = "true" THEN upload_success + 1 ELSE upload_success
           /\ genPc' = IF res = "raise" THEN "aborted" ELSE "upload"
           /\ uploadAt' = uploadAt + 1
    /\ UNCHANGED <<credVars, genRuns, generated, localFiles, files_created, saveAt, saveResult>>

\* main: the loop is over; the summary is printed and main returns.
GenSummary ==
    /\ genPc = "upload"
    /\ uploadAt > Len(files_created)
    /\ genPc' = "done"
    /\ UNCHANGED <<landing, credVars, genRuns, generated, localFiles, files_created, saveAt,
                   uploadAt, upload_success, saveResult, uploadResult>>

\* The generator has not run.
GeneratorIdle ==
    /\ genPc = "idle"
    /\ genRuns = 0
    /\ generated = [f \in FileNames |-> <<>>]
    /\ localFiles = [f \in FileNames |-> NoFile]
    /\ files_created = <<>>
    /\ saveAt = 1
    /\ uploadAt = 1
    /\ upload_success = 0
    /\ saveResult = NoneYet
    /\ uploadResult = NoneYet

\* ------------------------------------------------------------------ the generator's functions

\* The largest counts generate_employees, generate_products and generate_sales
\* are called with.
MaxEmployees == 3
MaxProducts == 2
MaxSales == 2

VARIABLES
    fn,         \* the generator function called: "none", "generate_employees",
                \* "generate_products", "generate_sales"
    num,        \* its count argument: num_employees, num_products, num_sales
    loopAt,     \* the loop variable's next value: emp_id, prod_id, sale_id
    employees,  \* generate_employees' list; generate_sales' argument
    products,   \* generate_products' list; generate_sales' argument
    sales,      \* generate_sales' list
    outcome,    \* "none", "running", "returned", "raised"
    result      \* what the call returned: Null until it returns, then Some(list)

dataVars == <<fn, num, loopAt, employees, products, sales, outcome, result>>

RECURSIVE ZeroPad(_, _)
ZeroPad(digits, width) == IF Len(digits) >= width THEN digits ELSE ZeroPad("0" \o digits, width)

\* f'{prefix}{n:0{width}d}': the decimal digits of n, padded with zeros on the
\* left to the width, and never cut.
FormatId(prefix, n, width) == prefix \o ZeroPad(ToString(n), width)

\* EmployeeId counted from zero, as range(num_employees) would.
EmployeeIdFromZero(emp_id) == FormatId("EMP-", emp_id - 1, 5)

\* f'EMP-{emp_id:05d}'
EmployeeId(emp_id) == FormatId("EMP-", emp_id, 5)

\* f'PRD-{prod_id:05d}'
ProductId(prod_id) == FormatId("PRD-", prod_id, 5)

\* f'TXN-{sale_id:08d}'
TransactionId(sale_id) == FormatId("TXN-", sale_id, 8)

Max(a, b) == IF a >= b THEN a ELSE b

\* What random.randint(a, b) can return: a and b included.
RandInt(a, b) == a..b

\* ManagerPicks with the employee's own index in the range.
ManagerPicksUpToSelf(emp_id) == RandInt(1, emp_id)

\* random.randint(1, max(1, emp_id-1)): the indexes a manager is picked from.
ManagerPicks(emp_id) == RandInt(1, Max(1, emp_id - 1))

\* 'manager_id': f'EMP-{pick:05d}' if emp_id > 1 and random.random() > 0.1 else None
\* (roll stands for random.random() > 0.1).
ManagerId(emp_id, pick, roll) ==
    IF emp_id > 1 /\ roll THEN Some(FormatId("EMP-", pick, 5)) ELSE Null

\* The departments of DEPARTMENTS the model draws from: the two that sell and one
\* that does not.
Departments == {"Sales", "Customer Success", "Legal"}

\* The employee dict of one turn of generate_employees' loop, as the line
\* save_to_csv writes and the load reads: None is the empty cell, read as NULL.
\* The e-mail is first.lower() + '.' + last.lower() + '@company.com'.
Employee(emp_id, department, manager, active) ==
    [employee_id |-> EmployeeId(emp_id), first_name |-> Some(<<"A">>),
     last_name |-> Some(<<"X">>),
     email |-> LOWER(Some(<<"A">> \o <<".">> \o <<"X">> \o <<"@", "x">>)),
     department |-> department, salary |-> 50000, hire_date |-> "2024-01-01",
     manager_id |-> manager, is_active |-> active]

\* Prices with a range that starts at zero.
PricesFromZero == {0, 500}

\* price_ranges['Books'] = (5, 50), in cents: what round(random.uniform(5, 50), 2)
\* can give at the ends of the range.
Prices == {500, 5000}

\* The product dict of one turn of generate_products' loop.
Product(prod_id, price, active) == Prod(ProductId(prod_id), "alpha", price, active)

\* ActiveProducts falling back to the whole catalogue when nothing is active.
ActiveProductsOrAll(ps) ==
    IF SelectSeq(ps, LAMBDA p : p.is_active = TRUE) = <<>> THEN ps
    ELSE SelectSeq(ps, LAMBDA p : p.is_active = TRUE)

\* ActiveProducts without the filter.
AllProducts(ps) == ps

\* active_products = [p for p in products if p['is_active']]
ActiveProducts(ps) == SelectSeq(ps, LAMBDA p : p.is_active = TRUE)

\* SalesEmployees without the filter.
AllEmployees(es) == es

\* sales_employees = [e for e in employees if e['department'] in ['Sales', 'Customer Success']]
SalesEmployees(es) == SelectSeq(es, LAMBDA e : e.department \in {"Sales", "Customer Success"})

\* The quantities and discounts random.choices draws, at the ends of their lists.
Quantities == {1, 50}
Discounts == {0, 20}

\* round(x / 100) for x >= 0, halves up.
RoundDiv100(x) == (x + 50) \div 100

\* final_price = unit_price * (1 - discount_pct/100);
\* total_amount = round(final_price * quantity, 2), in cents.
TotalAmount(unit_price, discount_pct, quantity) ==
    RoundDiv100(unit_price * (100 - discount_pct) * quantity)

\* 'sales_rep_id': random.choice(sales_employees)['employee_id'] if sales_employees else None
\* (pick is the index random.choice takes).
SalesRepId(sales_employees, pick) ==
    IF sales_employees # <<>> THEN Some(sales_employees[pick].employee_id) ELSE Null

\* The indexes random.choice(seq) can take; on an empty list it raises IndexError.
ChoiceIndexes(seq) == 1..Len(seq)

\* The sale dict of one turn of generate_sales' loop.
SaleOf(sale_id, product, rep, quantity, discount_pct) ==
    Sale(TransactionId(sale_id), product.product_id, rep, quantity,
         TotalAmount(product.price, discount_pct, quantity), "Online")

\* One turn of `for emp_id in range(1, num_employees + 1)`.
generate_employees(department, pick, roll, active) ==
    /\ fn = "generate_employees"
    /\ outcome = "running"
    /\ loopAt <= num
    /\ pick \in ManagerPicks(loopAt)
    /\ employees' = Append(employees,
                           Employee(loopAt, department, ManagerId(loopAt, pick, roll), active))
    /\ loopAt' = loopAt + 1
    /\ UNCHANGED <<fn, num, products, sales, outcome, result>>

\* One turn of `for prod_id in range(1, num_products + 1)`.
generate_products(price, active) ==
    /\ fn = "generate_products"
    /\ outcome = "running"
    /\ loopAt <= num
    /\ products' = Append(products, Product(loopAt, price, active))
    /\ loopAt' = loopAt + 1
    /\ UNCHANGED <<fn, num, employees, sales, outcome, result>>

\* One turn of `for sale_id in range(1, num_sales + 1)`: random.choice raises on
\* an empty active_products, and the exception leaves generate_sales.
generate_sales(productPick, repPick, quantity, discount_pct) ==
    /\ fn = "generate_sales"
    /\ outcome = "running"
    /\ loopAt <= num
    /\ LET active_products == ActiveProducts(products)
           sales_employees == SalesEmployees(employees)
       IN  IF active_products = <<>>
           THEN /\ outcome' = "raised"
                /\ UNCHANGED <<sales, loopAt>>
           ELSE /\ productPick \in ChoiceIndexes(active_products)
                /\ sales_employees # <<>> => repPick \in ChoiceIndexes(sales_employees)
                /\ sales_employees = <<>> => repPick = 1
                /\ sales' = Append(sales, SaleOf(loopAt, active_products[productPick],
                                                 SalesRepId(sales_employees, repPick),
                                                 quantity, discount_pct))
                /\ loopAt' = loopAt + 1
                /\ UNCHANGED outcome
    /\ UNCHANGED <<fn, num, employees, products, result>>

\* The loop is over: `return employees`, `return products`, `return sales`.
ReturnList ==
    /\ fn # "none"
    /\ outcome = "running"
    /\ loopAt > num
    /\ outcome' = "returned"
    /\ result' = Some(CASE fn = "generate_employees" -> employees
                        [] fn = "generate_products" -> products
                        [] fn = "generate_sales" -> sales)
    /\ UNCHANGED <<fn, num, loopAt, employees, products, sales>>

\* A call of one of the three functions is entered.
Called(f, n, es, ps) ==
    /\ fn = f
    /\ num = n
    /\ loopAt = 1
    /\ employees = es
    /\ products = ps
    /\ sales = <<>>
    /\ outcome = "running"
    /\ result = Null

\* No generator function has been called.
NoCall ==
    /\ fn = "none"
    /\ num = 0
    /\ loopAt = 1
    /\ employees = <<>>
    /\ products = <<>>
    /\ sales = <<>>
    /\ outcome = "none"
    /\ result = Null

\* The employee and product lists generate_sales is given: lists as
\* generate_employees and generate_products return them, with and without a selling
\* department and an active product, and the records of the landing files.
GivenEmployees ==
    {<<>>,
     <<Employee(1, "Legal", Null, TRUE)>>,
     <<Employee(1, "Legal", Null, TRUE), Employee(2, "Customer Success", Null, FALSE),
       Employee(3, "Sales", Some("EMP-00002"), TRUE)>>,
     Tail(GeneratedFile("employees").lines)}

GivenProducts ==
    {<<>>,
     <<Product(1, 500, FALSE), Product(2, 5000, FALSE)>>,
     <<Product(1, 500, FALSE), Product(2, 5000, TRUE), Product(3, 500, TRUE)>>,
     Tail(OtherFile("products").lines)}

\* ------------------------------------------------------------------ verify_results

VARIABLES
    scanFn,       \* the scan called: "none", "verify_results", "verify_results_detailed"
    scanPc,       \* the query that comes next: "list", "count", "columns"; else "idle",
                  \* "returned", "raised"
    scanDataset,  \* the position of `for dataset in datasets` (1 bronze, 2 silver, 3 gold)
    scanTables,   \* the tables the inner loop goes through in this dataset
    scanAt,       \* the position of the inner loop in scanTables
    queries,      \* the queries submitted so far, in order, each with its result
    scanBefore    \* the datasets and tables as they were when the scan started

scanVars == <<scanFn, scanPc, scanDataset, scanTables, scanAt, queries, scanBefore>>

\* ORDER BY table_name
SortedTableNames(l) ==
    IF l = 3 THEN <<"product_metrics", "sales_analytics", "sales_summary">> ELSE SourceTables

\* SELECT table_name FROM <dataset>.INFORMATION_SCHEMA.TABLES WHERE table_type =
\* 'BASE TABLE' ORDER BY table_name
ListedTables(l, T) == SelectSeq(SortedTableNames(l), LAMBDA t : T[DatasetOf(l)][t].exists)

\* What a query of the scan needs to succeed: the listing and the column query
\* need the dataset, the count needs the table.
QueryCanSucceed(kind, l, t, S, T) ==
    /\ DatasetOf(l) \in S
    /\ kind = "count" => T[DatasetOf(l)][t].exists

\* Where the scan stands when it starts on dataset l: verify_results lists the
\* dataset's tables, verify_results_detailed counts the first expected table.
DatasetStart(f, l) ==
    IF f = "verify_results"
    THEN [pc |-> "list", dataset |-> l, tabs |-> <<>>, at |-> 0]
    ELSE [pc |-> "count", dataset |-> l, tabs |-> TableNames(l), at |-> 1]

\* The outer loop goes on: the next dataset, or the function returns.
NextDataset(f, l) ==
    IF l < 3 THEN DatasetStart(f, l + 1)
    ELSE [pc |-> "returned", dataset |-> l, tabs |-> <<>>, at |-> 0]

\* The inner loop goes on: the next table, or the next dataset.
NextTable(f, l, tabs, at) ==
    IF at < Len(tabs) THEN [pc |-> "count", dataset |-> l, tabs |-> tabs, at |-> at + 1]
    ELSE NextDataset(f, l)

\* OnTableError without the inner try: the exception reaches the dataset's handler.
OnTableErrorLeavesDataset(f, l, tabs, at) == NextDataset(f, l)

\* `except Exception as count_error` / `as table_error`: the failure of a table's
\* query is printed and the inner loop goes on.
OnTableError(f, l, tabs, at) == NextTable(f, l, tabs, at)

\* `except Exception as e` around a dataset: the failure is printed and the outer
\* loop goes on.
OnDatasetError(f, l) == NextDataset(f, l)

ScanMoves(to) ==
    /\ scanPc' = to.pc
    /\ scanDataset' = to.dataset
    /\ scanTables' = to.tabs
    /\ scanAt' = to.at

\* verify_results() or verify_results_detailed() is called.
ScanStart(f) ==
    /\ scanFn = "none"
    /\ scanFn' = f
    /\ ScanMoves(DatasetStart(f, 1))
    /\ queries' = <<>>
    /\ scanBefore' = [schemas |-> schemas, tables |-> tables]
    /\ UNCHANGED pipelineVars

\* verify_results: the listing of a dataset's tables; without tables "Sin tablas"
\* is printed.
ListQuery(ok) ==
    /\ scanPc = "list"
    /\ ok => QueryCanSucceed("list", scanDataset, "", schemas, tables)
    /\ queries' = Append(queries, [kind |-> "list", dataset |-> scanDataset,
                                   table |-> "", ok |-> ok])
    /\ LET listed == ListedTables(scanDataset, tables)
       IN  ScanMoves(IF ~ok THEN OnDatasetError(scanFn, scanDataset)
                     ELSE IF listed = <<>> THEN NextDataset(scanFn, scanDataset)
                     ELSE [pc |-> "count", dataset |-> scanDataset, tabs |-> listed, at |-> 1])
    /\ UNCHANGED <<scanFn, scanBefore, pipelineVars>>

\* SELECT COUNT(*) FROM <dataset>.<table>; verify_results_detailed goes on to the
\* table's columns.
CountQuery(ok) ==
    /\ scanPc = "count"
    /\ ok => QueryCanSucceed("count", scanDataset, scanTables[scanAt], schemas, tables)
    /\ queries' = Append(queries, [kind |-> "count", dataset |-> scanDataset,
                                   table |-> scanTables[scanAt], ok |-> ok])
    /\ ScanMoves(IF ~ok THEN OnTableError(scanFn, scanDataset, scanTables, scanAt)
                 ELSE IF scanFn = "verify_results_detailed"
                 THEN [pc |-> "columns", dataset |-> scanDataset, tabs |-> scanTables,
                       at |-> scanAt]
                 ELSE NextTable(scanFn, scanDataset, scanTables, scanAt))
    /\ UNCHANGED <<scanFn, scanBefore, pipelineVars>>

\* verify_results_detailed: SELECT column_name FROM <dataset>.INFORMATION_SCHEMA.COLUMNS
ColumnsQuery(ok) ==
    /\ scanPc = "columns"
    /\ ok => QueryCanSucceed("columns", scanDataset, scanTables[scanAt], schemas, tables)
    /\ queries' = Append(queries, [kind |-> "columns", dataset |-> scanDataset,
                                   table |-> scanTables[scanAt], ok |-> ok])
    /\ ScanMoves(IF ~ok THEN OnTableError(scanFn, scanDataset, scanTables, scanAt)
                 ELSE NextTable(scanFn, scanDataset, scanTables, scanAt))
    /\ UNCHANGED <<scanFn, scanBefore, pipelineVars>>

\* No scan has been called.
NoScan ==
    /\ scanFn = "none"
    /\ scanPc = "idle"
    /\ scanDataset = 1
    /\ scanTables = <<>>
    /\ scanAt = 0
    /\ queries = <<>>
    /\ scanBefore = [schemas |-> {}, tables |-> NoTables]

\* The tables after the first n table statements of a run over the landing files L
\* have all succeeded.
RECURSIVE TablesAfterStatements(_, _)
TablesAfterStatements(L, n) ==
    IF n = 0 THEN NoTables
    ELSE TablesAfter(((n - 1) \div 3) + 1, ((n - 1) % 3) + 1, TRUE,
                     TablesAfterStatements(L, n - 1), L)

\* ------------------------------------------------------------------ specifications

IdleRuns ==
    /\ entry = [r \in Runs |-> "none"]
    /\ pc = [r \in Runs |-> "idle"]
    /\ layer = [r \in Runs |-> 1]
    /\ idx = [r \in Runs |-> 0]
    /\ success = [r \in Runs |-> TRUE]
    /\ overall = [r \in Runs |-> TRUE]
    /\ stageResult = [r \in Runs |-> [l \in 1..3 |-> "none"]]
    /\ log = [r \in Runs |-> <<>>]
    /\ before = [r \in Runs |-> NoTables]
    /\ written = [r \in Runs |-> NoTables]
    /\ response = [r \in Runs |-> NoResponse]

EmptyWarehouse ==
    /\ uploads = 0
    /\ schemas = {}
    /\ tables = NoTables
    /\ firstLoad = [t \in FileNames |-> [n |-> 0, table |-> NoTable]]

\* The pipeline run from the command line, run after run, over a bucket that is
\* empty or holds a set of landing files, any of which may then be replaced.
Init ==
    /\ landing \in {[f \in FileNames |-> NoFile],
                    [f \in FileNames |-> GeneratedFile(f)],
                    [f \in FileNames |-> OtherFile(f)],
                    [f \in FileNames |-> IF f = "employees" THEN GeneratedFile(f) ELSE OtherFile(f)]}
    /\ EmptyWarehouse
    /\ IdleRuns
    /\ NoCredentialSetup
    /\ GeneratorIdle
    /\ NoCall
    /\ NoScan

Next ==
    \/ \E r \in Runs : RunEtlMain(r) /\ UNCHANGED <<credVars, genVars, dataVars, scanVars>>
    \/ \E r \in Runs : Submit(r) /\ UNCHANGED <<credVars, genVars, dataVars, scanVars>>
    \/ \E r \in Runs, ok \in BOOLEAN : Complete(r, ok) /\ UNCHANGED <<credVars, genVars, dataVars, scanVars>>
    \/ \E r \in Runs : Verify(r) /\ UNCHANGED <<credVars, genVars, dataVars, scanVars>>
    \/ \E r \in Runs : Exit(r) /\ UNCHANGED <<credVars, genVars, dataVars, scanVars>>
    \/ \E f \in FileNames : \E new \in FilesOf(f) :
           ReplaceFile(f, new) /\ UNCHANGED <<credVars, genVars, dataVars, scanVars>>

vars == <<pipelineVars, credVars, genVars, dataVars, scanVars>>

Spec == Init /\ [][Next]_vars

\* The HTTP service of main.py: app.run() serves each request on a thread of its
\* own, and the handler takes no lock, so a request may arrive while another's
\* run_etl is still running.
InitHttp ==
    /\ landing = [f \in FileNames |-> GeneratedFile(f)]
    /\ EmptyWarehouse
    /\ IdleRuns
    /\ NoCredentialSetup
    /\ GeneratorIdle
    /\ NoCall
    /\ NoScan

NextHttp ==
    \/ \E r \in Runs, jsonBody \in BOOLEAN :
           trigger_etl_endpoint(r, jsonBody) /\ UNCHANGED <<credVars, genVars, dataVars, scanVars>>
    \/ \E r \in Runs : Submit(r) /\ UNCHANGED <<credVars, genVars, dataVars, scanVars>>
    \/ \E r \in Runs, ok \in BOOLEAN : Complete(r, ok) /\ UNCHANGED <<credVars, genVars, dataVars, scanVars>>
    \/ \E r \in Runs : Verify(r) /\ UNCHANGED <<credVars, genVars, dataVars, scanVars>>
    \/ \E r \in Runs : Respond(r) /\ UNCHANGED <<credVars, genVars, dataVars, scanVars>>

SpecHttp == InitHttp /\ [][NextHttp]_vars

pipelineRest == <<uploads, schemas, tables, entry, pc, layer, idx, success, overall,
                  stageResult, log, before, written, firstLoad, response>>

\* setup_gcp_credentials called in a process with any environment and any of the
\* credential files.
InitCred ==
    /\ env \in [EnvNames -> UNION {EnvValues(v) : v \in EnvNames}]
    /\ \A v \in EnvNames : env[v] \in EnvValues(v)
    /\ fs \in SUBSET {KeyFile, "/secrets/key.json"}
    /\ credCalls = 0
    /\ credResult = NoResult
    /\ landing = [f \in FileNames |-> NoFile]
    /\ EmptyWarehouse
    /\ IdleRuns
    /\ GeneratorIdle
    /\ NoCall
    /\ NoScan

NextCred ==
    \E clientOk \in BOOLEAN :
        setup_gcp_credentials(clientOk) /\ UNCHANGED <<pipelineVars, genVars, dataVars, scanVars>>

SpecCred == InitCred /\ [][NextCred]_vars

\* The generator's main(), run after run, in a process with or without credentials,
\* over a bucket that is empty or holds an earlier set of files.
InitGen ==
    /\ env \in {[v \in EnvNames |-> Null],
                [[v \in EnvNames |-> Null] EXCEPT !["K_SERVICE"] = Some("etl-pipeline")]}
    /\ fs \in {{}, {KeyFile}}
    /\ credCalls = 0
    /\ credResult = NoResult
    /\ landing \in {[f \in FileNames |-> NoFile], [f \in FileNames |-> OtherFile(f)]}
    /\ EmptyWarehouse
    /\ IdleRuns
    /\ GeneratorIdle
    /\ NoCall
    /\ NoScan

NextGen ==
    \/ GenStart /\ UNCHANGED <<pipelineRest, dataVars, scanVars>>
    \/ \E clientOk \in BOOLEAN : GenSetup(clientOk) /\ UNCHANGED <<pipelineRest, dataVars, scanVars>>
    \/ GenGenerate /\ UNCHANGED <<pipelineRest, dataVars, scanVars>>
    \/ \E ioOk \in BOOLEAN, emptied \in BOOLEAN : GenSave(ioOk, emptied) /\ UNCHANGED <<pipelineRest, dataVars, scanVars>>
    \/ \E netOk \in BOOLEAN : GenUpload(netOk) /\ UNCHANGED <<pipelineRest, dataVars, scanVars>>
    \/ GenSummary /\ UNCHANGED <<pipelineRest, dataVars, scanVars>>

SpecGen == InitGen /\ [][NextGen]_vars

\* A call of generate_employees or generate_products with any count up to the
\* bound, or of generate_sales with any count and any of the given lists.
InitData ==
    /\ landing = [f \in FileNames |-> NoFile]
    /\ EmptyWarehouse
    /\ IdleRuns
    /\ NoCredentialSetup
    /\ GeneratorIdle
    /\ NoScan
    /\ \/ \E n \in 0..MaxEmployees : Called("generate_employees", n, <<>>, <<>>)
       \/ \E n \in 0..MaxProducts : Called("generate_products", n, <<>>, <<>>)
       \/ \E n \in 0..MaxSales : \E es \in GivenEmployees : \E ps \in GivenProducts :
              Called("generate_sales", n, es, ps)

NextData ==
    \/ \E department \in Departments, pick \in 1..MaxEmployees, roll \in BOOLEAN, active \in BOOLEAN :
           generate_employees(department, pick, roll, active)
           /\ UNCHANGED <<pipelineVars, credVars, genVars, scanVars>>
    \/ \E price \in Prices, active \in BOOLEAN :
           generate_products(price, active)
           /\ UNCHANGED <<pipelineVars, credVars, genVars, scanVars>>
    \/ \E productPick \in 1..Max(1, Len(products)), repPick \in 1..Max(1, Len(employees)),
          quantity \in Quantities, discount_pct \in Discounts :
           generate_sales(productPick, repPick, quantity, discount_pct)
           /\ UNCHANGED <<pipelineVars, credVars, genVars, scanVars>>
    \/ ReturnList /\ UNCHANGED <<pipelineVars, credVars, genVars, scanVars>>

SpecData == InitData /\ [][NextData]_vars

\* main: sales = generate_sales(CONFIG['num_sales'], employees, products), once
\* generate_products has returned.
MainCallsGenerateSales ==
    /\ fn = "generate_products"
    /\ outcome = "returned"
    /\ fn' = "generate_sales"
    /\ num' = MaxSales
    /\ loopAt' = 1
    /\ sales' = <<>>
    /\ outcome' = "running"
    /\ result' = Null
    /\ UNCHANGED <<employees, products>>

\* main, once generate_sales has returned: the three save_to_csv calls and the
\* three upload_to_gcs calls, all of which succeed, put the data in the bucket.
MainUploadsAll ==
    /\ fn = "generate_sales"
    /\ outcome = "returned"
    /\ landing = [f \in FileNames |-> NoFile]
    /\ LET data == [f \in FileNames |-> CASE f = "employees" -> employees
                                          [] f = "products" -> products
                                          [] f = "sales" -> sales]
       IN  /\ \A f \in FileNames : save_to_csv(data[f], TRUE) = "true"
           /\ upload_to_gcs(TRUE) = "true"
           /\ landing' = [f \in FileNames |-> File(data[f])]
    /\ UNCHANGED <<uploads, schemas, tables, entry, pc, layer, idx, success, overall,
                   stageResult, log, before, written, firstLoad, response>>

\* The generator's main() after generate_employees has returned, followed, once
\* the files are in the bucket, by one run of the pipeline over an empty warehouse.
InitE2E ==
    /\ landing = [f \in FileNames |-> NoFile]
    /\ EmptyWarehouse
    /\ IdleRuns
    /\ NoCredentialSetup
    /\ GeneratorIdle
    /\ NoScan
    /\ Called("generate_products", MaxProducts, Tail(GeneratedFile("employees").lines), <<>>)

NextE2E ==
    \/ \E price \in Prices, active \in BOOLEAN :
           generate_products(price, active)
           /\ UNCHANGED <<pipelineVars, credVars, genVars, scanVars>>
    \/ ReturnList /\ UNCHANGED <<pipelineVars, credVars, genVars, scanVars>>
    \/ MainCallsGenerateSales /\ UNCHANGED <<pipelineVars, credVars, genVars, scanVars>>
    \/ \E productPick \in 1..Max(1, Len(products)), repPick \in 1..Max(1, Len(employees)),
          quantity \in Quantities, discount_pct \in Discounts :
           generate_sales(productPick, repPick, quantity, discount_pct)
           /\ UNCHANGED <<pipelineVars, credVars, genVars, scanVars>>
    \/ MainUploadsAll /\ UNCHANGED <<credVars, genVars, dataVars, scanVars>>
    \/ landing["sales"].exists /\ RunEtlMain(1) /\ UNCHANGED <<credVars, genVars, dataVars, scanVars>>
    \/ Submit(1) /\ UNCHANGED <<credVars, genVars, dataVars, scanVars>>
    \/ \E ok \in BOOLEAN : Complete(1, ok) /\ UNCHANGED <<credVars, genVars, dataVars, scanVars>>
    \/ Verify(1) /\ UNCHANGED <<credVars, genVars, dataVars, scanVars>>

SpecE2E == InitE2E /\ [][NextE2E]_vars

\* verify_results or verify_results_detailed called over the warehouse as a run of
\* the pipeline over the generated files can leave it: s datasets created and the
\* first n table statements done.
InitVerify ==
    /\ landing = [f \in FileNames |-> GeneratedFile(f)]
    /\ uploads = 0
    /\ firstLoad = [t \in FileNames |-> [n |-> 0, table |-> NoTable]]
    /\ \E w \in {<<0, 0>>, <<1, 2>>, <<2, 3>>, <<2, 5>>, <<3, 9>>} :
           /\ schemas = {Datasets[l] : l \in 1..w[1]}
           /\ tables = TablesAfterStatements(landing, w[2])
    /\ IdleRuns
    /\ NoCredentialSetup
    /\ GeneratorIdle
    /\ NoCall
    /\ NoScan

NextVerify ==
    \/ \E f \in {"verify_results", "verify_results_detailed"} :
           ScanStart(f) /\ UNCHANGED <<credVars, genVars, dataVars>>
    \/ \E ok \in BOOLEAN : ListQuery(ok) /\ UNCHANGED <<credVars, genVars, dataVars>>
    \/ \E ok \in BOOLEAN : CountQuery(ok) /\ UNCHANGED <<credVars, genVars, dataVars>>
    \/ \E ok \in BOOLEAN : ColumnsQuery(ok) /\ UNCHANGED <<credVars, genVars, dataVars>>

SpecVerify == InitVerify /\ [][NextVerify]_vars

\* ------------------------------------------------------------------ claims: the pipeline

Active == {"submit", "wait", "verify", "returned"}

\* The position in log[r] of statement (l, k), or 0 when it was never submitted.
PosOf(r, l, k) ==
    IF \E i \in DOMAIN log[r] : log[r][i].layer = l /\ log[r][i].idx = k
    THEN CHOOSE i \in DOMAIN log[r] : log[r][i].layer = l /\ log[r][i].idx = k
    ELSE 0

ResOf(r, l, k) == IF PosOf(r, l, k) = 0 THEN "none" ELSE log[r][PosOf(r, l, k)].res

\* C1 as stated: a failed statement is the last statement the run submits.
C1_AbortsAtFirstFailure ==
    \A r \in Runs : \A i \in DOMAIN log[r] : log[r][i].res = "fail" => i = Len(log[r])

\* C1, amended: a failed CREATE SCHEMA is the last statement the run submits; a
\* failed table statement is followed only by table statements of its own stage,
\* all of which are still submitted before the stage returns; a stage with a failed
\* statement returns False, and no statement of a later stage is submitted.
C1_StageFailure ==
    \A r \in Runs : \A i \in DOMAIN log[r] :
        log[r][i].res = "fail" =>
            LET l == log[r][i].layer
            IN  /\ log[r][i].idx = 0 => i = Len(log[r])
                /\ \A j \in DOMAIN log[r] : j > i => log[r][j].layer = l
                /\ stageResult[r][l] # "true"
                /\ (log[r][i].idx > 0 /\ stageResult[r][l] # "none") =>
                       \A k \in 1..3 : ResOf(r, l, k) \in {"ok", "fail"}
                /\ \A m \in 1..3 : m > l => stageResult[r][m] = "none"

\* C1 witness: the first table statement of a stage failed, the other two were
\* still submitted, and the stage returned False.
C1_Witness ==
    \E r \in Runs : \E l \in 1..3 :
        /\ ResOf(r, l, 1) = "fail"
        /\ ResOf(r, l, 2) = "ok"
        /\ ResOf(r, l, 3) = "ok"
        /\ stageResult[r][l] = "false"
        /\ pc[r] = "returned"

\* C3: a stage is invoked only if every earlier stage returned True, every
\* statement of the earlier stages having succeeded.
C3_StageOnlyAfterSuccess ==
    \A r \in Runs : \A i \in DOMAIN log[r] : \A m \in 1..3 :
        m < log[r][i].layer =>
            /\ stageResult[r][m] = "true"
            /\ \A k \in 0..3 : ResOf(r, m, k) = "ok"

\* C3 witness: a silver statement failed, the run has returned, and gold was
\* never invoked.
C3_Witness ==
    \E r \in Runs :
        /\ pc[r] = "returned"
        /\ \E k \in 1..3 : ResOf(r, 2, k) = "fail"
        /\ stageResult[r][1] = "true"
        /\ \A k \in 0..3 : ResOf(r, 3, k) = "none"

StatementNo(e) == 4 * (e.layer - 1) + e.idx

\* C4: the statements of a run are submitted in the fixed order, bronze, silver,
\* gold, and only the last one submitted can be in flight.
C4_OneAtATime ==
    \A r \in Runs :
        /\ \A i \in DOMAIN log[r] : i < Len(log[r]) =>
               /\ log[r][i].res \in {"ok", "fail"}
               /\ StatementNo(log[r][i]) < StatementNo(log[r][i + 1])
        /\ Cardinality({i \in DOMAIN log[r] : log[r][i].res = "inflight"}) <= 1
        /\ pc[r] = "submit" => \A i \in DOMAIN log[r] : log[r][i].res # "inflight"

\* C4 witness: a gold statement is in flight after eight statements that completed.
C4_Witness ==
    \E r \in Runs :
        /\ Len(log[r]) = 9
        /\ log[r][9].res = "inflight"
        /\ pc[r] = "wait"

\* C5: when a run has failed, every table whose statement succeeded in the run
\* holds what that statement wrote, and every other table (its statement failed or
\* was never submitted) holds what it held when the run started.
C5_NoRollback ==
    \A r \in Runs :
        (pc[r] = "returned" /\ ~overall[r]) =>
            \A l \in 1..3 : \A k \in 1..3 :
                LET d == DatasetOf(l)
                    t == TableOf(l, k)
                IN  IF ResOf(r, l, k) = "ok"
                    THEN tables[d][t] = written[r][d][t]
                    ELSE tables[d][t] = before[r][d][t]

\* C5 witness: a failed run that rewrote bronze.employees with other contents, whose
\* load of bronze.products failed over an existing table, and that never reached gold.
C5_Witness ==
    \E r \in Runs :
        /\ pc[r] = "returned"
        /\ ~overall[r]
        /\ ResOf(r, 1, 1) = "ok"
        /\ before[r]["bronze"]["employees"].exists
        /\ tables["bronze"]["employees"] # before[r]["bronze"]["employees"]
        /\ ResOf(r, 1, 2) = "fail"
        /\ before[r]["bronze"]["products"].exists
        /\ before[r]["gold"]["sales_summary"].exists
        /\ ResOf(r, 3, 3) = "none"

\* C6: while a landing file is unchanged, every successful load of it leaves the
\* bronze table with the contents and the row count the first load gave it.
C6_BronzeIdempotent ==
    \A t \in FileNames :
        firstLoad[t].n >= 1 =>
            /\ tables["bronze"][t] = firstLoad[t].table
            /\ Len(tables["bronze"][t].rows) = Len(firstLoad[t].table.rows)

\* C6 witness: each of the three files has been loaded twice without changing.
C6_Witness == \A t \in FileNames : firstLoad[t].n = 2 /\ Len(tables["bronze"][t].rows) > 0

SilverStageDone(r) == pc[r] \in Active /\ stageResult[r][2] = "true"

\* C7 as stated: after a successful silver stage each silver table holds exactly
\* the rows of its bronze table that pass the filter.
C7_SilverIsFilteredBronze ==
    \A r \in Runs :
        SilverStageDone(r) =>
            /\ tables["silver"]["employees"].rows =
                   SelectSeq(tables["bronze"]["employees"].rows,
                             LAMBDA e : ~IsNull(e.email) /\ e.salary > 0)
            /\ tables["silver"]["products"].rows =
                   SelectSeq(tables["bronze"]["products"].rows,
                             LAMBDA q : q.price > 0 /\ q.is_active = TRUE)
            /\ tables["silver"]["sales"].rows =
                   SelectSeq(tables["bronze"]["sales"].rows,
                             LAMBDA s : s.quantity > 0 /\ s.total_amount > 0)

\* C7, amended: after a successful silver stage silver.products and silver.sales
\* hold exactly the bronze rows that pass their filters, and silver.employees holds,
\* for exactly the bronze employees with non-null email and salary > 0 and in their
\* order, the row cut down to seven columns with the names trimmed and the email
\* trimmed and lower-cased; nothing of the silver tables' earlier contents remains.
C7_SilverFromBronze ==
    \A r \in Runs :
        SilverStageDone(r) =>
            LET kept == SelectSeq(tables["bronze"]["employees"].rows,
                                  LAMBDA e : ~IsNull(e.email) /\ e.salary > 0)
                se == tables["silver"]["employees"].rows
            IN  /\ Len(se) = Len(kept)
                /\ \A i \in 1..Len(kept) :
                       /\ DOMAIN se[i] = {"employee_id", "first_name", "last_name", "email",
                                          "department", "salary", "hire_date"}
                       /\ se[i].employee_id = kept[i].employee_id
                       /\ se[i].first_name = TRIM(kept[i].first_name)
                       /\ se[i].last_name = TRIM(kept[i].last_name)
                       /\ se[i].email = LOWER(TRIM(kept[i].email))
                       /\ se[i].department = kept[i].department
                       /\ se[i].salary = kept[i].salary
                       /\ se[i].hire_date = kept[i].hire_date
                /\ tables["silver"]["products"].rows =
                       SelectSeq(tables["bronze"]["products"].rows,
                                 LAMBDA q : q.price > 0 /\ q.is_active = TRUE)
                /\ tables["silver"]["sales"].rows =
                       SelectSeq(tables["bronze"]["sales"].rows,
                                 LAMBDA s : s.quantity > 0 /\ s.total_amount > 0)

\* C7 witness: a silver stage succeeded over silver tables of an earlier run,
\* silver.employees having held other rows, with bronze rows that each filter
\* drops and an email that the cleaning changes.
C7_Witness ==
    \E r \in Runs :
        /\ SilverStageDone(r)
        /\ \A t \in FileNames :
               /\ before[r]["silver"][t].exists
               /\ Len(tables["silver"][t].rows) < Len(tables["bronze"][t].rows)
        /\ before[r]["silver"]["employees"] # tables["silver"]["employees"]
        /\ \E i \in DOMAIN tables["silver"]["employees"].rows :
               tables["silver"]["employees"].rows[i].email = Some(<<"a", "@", "x">>)
        /\ \E i \in DOMAIN tables["bronze"]["employees"].rows :
               tables["bronze"]["employees"].rows[i].email = Some(<<" ", "A", "@", "X", " ">>)

\* ------------------------------------------------------------------ claims: the HTTP service

\* C2 as stated: the answer is 200 'success' only when the three stages of the
\* request's run succeeded, and 500 'error' with a message and a suggestion
\* whenever a stage of the run failed.
C2_ResponseReflectsRun ==
    \A r \in Runs :
        (pc[r] = "done" /\ entry[r] = "http") =>
            /\ response[r].code = 200 =>
                   /\ response[r].status = "success"
                   /\ \A l \in 1..3 : stageResult[r][l] = "true"
            /\ (\E l \in 1..3 : stageResult[r][l] = "false") =>
                   /\ response[r].code = 500
                   /\ response[r].status = "error"
                   /\ response[r].message # "none"
                   /\ response[r].suggestion # "none"

\* C8 as stated: at most one pipeline run is in progress at any time.
C8_OneRunAtATime ==
    \A r1 \in Runs : \A r2 \in Runs :
        r1 # r2 => ~(pc[r1] \in Active /\ pc[r2] \in Active)

\* ------------------------------------------------------------------ claims: credentials

\* C9: a call of setup_gcp_credentials takes its credentials from the first of:
\* ambient credentials when K_SERVICE is set (non-empty), whatever files and other
\* variables there are; else the key file in the working directory; else the file
\* GOOGLE_APPLICATION_CREDENTIALS names, when it exists; else the blob in
\* GOOGLE_CREDENTIALS_JSON; and with none of them the call raises and gives no client.
C9_CredentialPriority ==
    [][credCalls' = credCalls + 1 =>
          LET managed == Truthy(env["K_SERVICE"])
              gac == env["GOOGLE_APPLICATION_CREDENTIALS"]
              blob == env["GOOGLE_CREDENTIALS_JSON"]
              gacFile == Truthy(gac) /\ gac[1] \in fs
              anyFile == KeyFile \in fs \/ gacFile
          IN  /\ managed => credResult'.source = "ambient"
              /\ (~managed /\ KeyFile \in fs) =>
                     credResult'.source = "file" /\ credResult'.path = KeyFile
              /\ (~managed /\ KeyFile \notin fs /\ gacFile) =>
                     credResult'.source = "file" /\ credResult'.path = gac[1]
              /\ (~managed /\ ~anyFile /\ Truthy(blob)) => credResult'.source = "json"
              /\ (~managed /\ ~anyFile /\ ~Truthy(blob)) =>
                     credResult'.source = "none" /\ credResult'.outcome = "error"
              /\ credResult'.outcome = "client" => credResult'.source # "none"
              /\ credResult'.source = "file" =>
                     env'["GOOGLE_APPLICATION_CREDENTIALS"] = Some(credResult'.path)
      ]_vars

\* C9 witness: K_SERVICE is unset, GOOGLE_APPLICATION_CREDENTIALS names a file that
\* does not exist while another file does, and the client came from the JSON blob.
C9_Witness ==
    /\ credCalls >= 1
    /\ credResult.source = "json"
    /\ credResult.outcome = "client"
    /\ env["GOOGLE_APPLICATION_CREDENTIALS"] = Some("/nowhere/key.json")
    /\ fs = {"/secrets/key.json"}

\* ------------------------------------------------------------------ claims: the generator

Count(res, v) == Cardinality({f \in FileNames : res[f] = v})

\* C10: in main, save_to_csv and upload_to_gcs report a failure as False and never
\* raise: a run is aborted only before the first write, all three writes are
\* attempted, every file written is offered to upload_to_gcs, the run ends with its
\* summary counts, and a file uploaded in the run stays in the bucket as uploaded.
C10_PerFileFailures ==
    /\ \A f \in FileNames :
           saveResult[f] \in {"none", "true", "false"} /\ uploadResult[f] \in {"none", "true", "false"}
    /\ genPc = "aborted" => saveResult = NoneYet /\ uploadResult = NoneYet
    /\ genPc \in {"upload", "done"} => \A f \in FileNames : saveResult[f] # "none"
    /\ genPc = "done" =>
           /\ \A f \in FileNames : saveResult[f] = "true" <=> uploadResult[f] # "none"
           /\ Len(files_created) = Count(saveResult, "true")
           /\ upload_success = Count(uploadResult, "true")
    /\ \A f \in FileNames :
           uploadResult[f] = "true" => landing[f] = File(generated[f])
    /\ genPc \in {"save", "upload"} =>
           ENABLED (\/ \E ioOk \in BOOLEAN, emptied \in BOOLEAN : GenSave(ioOk, emptied)
                    \/ \E netOk \in BOOLEAN : GenUpload(netOk)
                    \/ GenSummary)

\* C10 witness: a run that ended with its summary after the write of products.csv
\* failed and the upload of employees.csv failed: sales.csv is in the bucket as
\* generated, and the bucket's earlier employees.csv is still there.
C10_Witness ==
    /\ genPc = "done"
    /\ saveResult = [f \in FileNames |-> IF f = "products" THEN "false" ELSE "true"]
    /\ uploadResult["employees"] = "false"
    /\ uploadResult["sales"] = "true"
    /\ landing["sales"] = GeneratedFile("sales")
    /\ landing["employees"] = OtherFile("employees")
    /\ upload_success = 1

\* ------------------------------------------------------------------ claims: the generator's functions

\* C11: every sale generate_sales has made, and every sale of the list it returns,
\* carries the product_id of a product of the given products list whose is_active
\* flag is true.
C11_SaleProductIsActive ==
    fn = "generate_sales" =>
        /\ \A i \in DOMAIN sales :
               \E j \in DOMAIN products :
                   /\ products[j].product_id = sales[i].product_id
                   /\ products[j].is_active = TRUE
        /\ outcome = "returned" => result = Some(sales)

\* C11 witness: generate_sales has returned two sales of two different active
\* products, from a list whose first product is inactive.
C11_Witness ==
    /\ fn = "generate_sales"
    /\ outcome = "returned"
    /\ Len(products) = 3
    /\ products[1].is_active = FALSE
    /\ Len(result[1]) = 2
    /\ result[1][1].product_id = "PRD-00003"
    /\ result[1][2].product_id = "PRD-00002"

ExpectedEmployeeIds == <<"EMP-00001", "EMP-00002", "EMP-00003", "EMP-00004", "EMP-00005">>

\* C12: generate_employees(N) never raises and returns exactly N records; the
\* i-th record made has the identifier EMP-0000i, and no two records share one.
C12_EmployeeIdsSequential ==
    fn = "generate_employees" =>
        /\ outcome # "raised"
        /\ \A i \in DOMAIN employees : employees[i].employee_id = ExpectedEmployeeIds[i]
        /\ \A i \in DOMAIN employees : \A j \in DOMAIN employees :
               i # j => employees[i].employee_id # employees[j].employee_id
        /\ Len(employees) <= num
        /\ outcome = "returned" => result = Some(employees) /\ Len(result[1]) = num

\* C12 witness: generate_employees(3) has returned three records, the last one
\* EMP-00003.
C12_Witness ==
    /\ fn = "generate_employees"
    /\ outcome = "returned"
    /\ num = 3
    /\ Len(result[1]) = 3
    /\ result[1][3].employee_id = "EMP-00003"

\* The index of the employee a manager_id names, or 0 when it names none.
ManagerIndex(es, i) ==
    IF es[i].manager_id = Null THEN 0
    ELSE IF \E j \in DOMAIN es : es[j].employee_id = es[i].manager_id[1]
    THEN CHOOSE j \in DOMAIN es : es[j].employee_id = es[i].manager_id[1]
    ELSE Len(es) + 1

\* Following manager_id from employee i ends at an employee without manager
\* within `fuel` steps.
RECURSIVE ChainEnds(_, _, _)
ChainEnds(es, i, fuel) ==
    IF i = 0 THEN TRUE
    ELSE IF fuel = 0 \/ i > Len(es) THEN FALSE
    ELSE ChainEnds(es, ManagerIndex(es, i), fuel - 1)

\* C13: the first employee has no manager; the manager_id of a later employee is
\* unset or the identifier of an employee generated before it; so every manager_id
\* names an employee of the list and following manager_id never comes back.
C13_ManagerIsEarlierEmployee ==
    fn = "generate_employees" =>
        \A i \in DOMAIN employees :
            /\ i = 1 => employees[i].manager_id = Null
            /\ employees[i].manager_id # Null =>
                   \E j \in 1..(i - 1) : employees[j].employee_id = employees[i].manager_id[1]
            /\ ManagerIndex(employees, i) < i
            /\ ChainEnds(employees, i, Len(employees))

\* C13 witness: three employees returned, the third managed by the second and the
\* second by the first.
C13_Witness ==
    /\ fn = "generate_employees"
    /\ outcome = "returned"
    /\ Len(employees) = 3
    /\ employees[3].manager_id = Some("EMP-00002")
    /\ employees[2].manager_id = Some("EMP-00001")
    /\ employees[1].manager_id = Null

\* C14: when the given employees list has an employee of 'Sales' or 'Customer
\* Success', every sale's sales_rep_id is the identifier of such an employee of the
\* list; when it has none, every sale's sales_rep_id is unset.
C14_SalesRepSells ==
    fn = "generate_sales" =>
        LET sellers == {j \in DOMAIN employees :
                            employees[j].department \in {"Sales", "Customer Success"}}
        IN  \A i \in DOMAIN sales :
                IF sellers = {} THEN sales[i].sales_rep_id = Null
                ELSE /\ sales[i].sales_rep_id # Null
                     /\ \E j \in sellers : employees[j].employee_id = sales[i].sales_rep_id[1]

\* C14 witness: two sales returned, one by the employee of Customer Success and one
\* by the employee of Sales, from a list that starts with an employee of Legal.
C14_Witness ==
    /\ fn = "generate_sales"
    /\ outcome = "returned"
    /\ Len(employees) = 3
    /\ employees[1].department = "Legal"
    /\ Len(sales) = 2
    /\ sales[1].sales_rep_id = Some("EMP-00002")
    /\ sales[2].sales_rep_id = Some("EMP-00003")

\* C18: generate_sales with num_sales >= 1 and no active product in the given list
\* raises at its first sale and returns nothing, having made no sale; with
\* num_sales = 0 it returns the empty list whatever the products; it raises in no
\* other case, and no sale it makes is of a product that is inactive or missing.
C18_NoActiveProductRaises ==
    fn = "generate_sales" =>
        LET noActive == \A j \in DOMAIN products : products[j].is_active # TRUE
        IN  /\ (num >= 1 /\ noActive) =>
                   /\ outcome \in {"running", "raised"}
                   /\ outcome = "running" => loopAt = 1
                   /\ sales = <<>>
                   /\ result = Null
            /\ num = 0 =>
                   /\ outcome \in {"running", "returned"}
                   /\ sales = <<>>
                   /\ outcome = "returned" => result = Some(<<>>)
            /\ outcome = "raised" => num >= 1 /\ noActive /\ result = Null
            /\ \A i \in DOMAIN sales :
                   ~noActive /\ \E j \in DOMAIN products :
                                    /\ products[j].product_id = sales[i].product_id
                                    /\ products[j].is_active = TRUE
            /\ outcome = "running" =>
                   ENABLED (\/ ReturnList
                            \/ \E productPick \in 1..Max(1, Len(products)),
                                  repPick \in 1..Max(1, Len(employees)),
                                  quantity \in Quantities, discount_pct \in Discounts :
                                   generate_sales(productPick, repPick, quantity, discount_pct))

\* C18 witness: generate_sales(2, ...) has raised over two products, both inactive,
\* and a list of employees with sellers.
C18_Witness ==
    /\ fn = "generate_sales"
    /\ outcome = "raised"
    /\ num = 2
    /\ Len(products) = 2
    /\ Len(employees) = 3
    /\ result = Null

\* ------------------------------------------------------------------ claims: verification

Queried(kind, l, t) ==
    \E i \in DOMAIN queries :
        queries[i].kind = kind /\ queries[i].dataset = l /\ queries[i].table = t

ListedOk(l) ==
    \E i \in DOMAIN queries :
        queries[i].kind = "list" /\ queries[i].dataset = l /\ queries[i].ok

\* The scan is through with dataset l.
ScanPast(l) == scanPc = "returned" \/ l < scanDataset

\* C15: a scan never raises and never stops short, whatever queries fail: once it
\* is past a dataset, verify_results has listed the dataset and, when the listing
\* succeeded, counted every table of it, and verify_results_detailed has counted
\* each of its three expected tables; within a dataset every table before the
\* current one has been counted; while the scan has not returned its next query can
\* be submitted; it ends after at most eighteen queries; and the datasets and
\* tables are as they were when the scan started.
C15_ScanNeverAborts ==
    scanFn # "none" =>
        /\ scanPc \in {"list", "count", "columns", "returned"}
        /\ schemas = scanBefore.schemas
        /\ tables = scanBefore.tables
        /\ Len(queries) <= 18
        /\ \A l \in 1..3 :
               /\ (ScanPast(l) /\ scanFn = "verify_results") =>
                      /\ Queried("list", l, "")
                      /\ ListedOk(l) =>
                             \A k \in 1..3 :
                                 tables[DatasetOf(l)][TableOf(l, k)].exists =>
                                     Queried("count", l, TableOf(l, k))
               /\ (ScanPast(l) /\ scanFn = "verify_results_detailed") =>
                      \A k \in 1..3 : Queried("count", l, TableOf(l, k))
        /\ scanPc \in {"count", "columns"} =>
               \A k \in 1..(scanAt - 1) : Queried("count", scanDataset, scanTables[k])
        /\ scanPc # "returned" =>
               ENABLED (\/ \E ok \in BOOLEAN : ListQuery(ok)
                        \/ \E ok \in BOOLEAN : CountQuery(ok)
                        \/ \E ok \in BOOLEAN : ColumnsQuery(ok))

\* C15 witness: verify_results has returned after the count of bronze.products
\* failed and the listing of silver failed: bronze.sales and the three gold tables
\* were still counted.
C15_Witness ==
    /\ scanFn = "verify_results"
    /\ scanPc = "returned"
    /\ \E i \in DOMAIN queries :
           /\ queries[i] = [kind |-> "count", dataset |-> 1, table |-> "products", ok |-> FALSE]
           /\ \E j \in DOMAIN queries :
                  /\ j > i
                  /\ queries[j] = [kind |-> "count", dataset |-> 1, table |-> "sales", ok |-> TRUE]
    /\ \E i \in DOMAIN queries :
           queries[i] = [kind |-> "list", dataset |-> 2, table |-> "", ok |-> FALSE]
    /\ \A t \in {"sales_analytics", "product_metrics", "sales_summary"} :
           \E i \in DOMAIN queries :
               queries[i] = [kind |-> "count", dataset |-> 3, table |-> t, ok |-> TRUE]

\* ------------------------------------------------------------------ claims: statements of a run

\* C16: the statements a run submits are among the twelve of the pipeline, and no
\* statement is submitted twice in a run, whether it succeeded or failed.
C16_NoRetry ==
    \A r \in Runs :
        /\ Len(log[r]) <= 12
        /\ \A i \in DOMAIN log[r] :
               /\ log[r][i].layer \in 1..3
               /\ log[r][i].idx \in 0..3
               /\ \A j \in DOMAIN log[r] :
                      (log[r][j].layer = log[r][i].layer /\ log[r][j].idx = log[r][i].idx)
                          => j = i

\* C16 witness: a run has returned after the load of bronze.products failed: the
\* four bronze statements were submitted once each and nothing else.
C16_Witness ==
    \E r \in Runs :
        /\ pc[r] = "returned"
        /\ Len(log[r]) = 4
        /\ log[r][3] = [layer |-> 1, idx |-> 2, res |-> "fail"]
        /\ log[r][4] = [layer |-> 1, idx |-> 3, res |-> "ok"]

\* C17: a table statement of a stage is submitted only after the stage's CREATE
\* SCHEMA was submitted and has succeeded; when the CREATE SCHEMA of a stage has
\* failed, none of the stage's three table statements is submitted and the stage
\* has returned False.
C17_SchemaFirst ==
    \A r \in Runs :
        /\ \A i \in DOMAIN log[r] :
               log[r][i].idx > 0 =>
                   \E j \in 1..(i - 1) :
                       log[r][j] = [layer |-> log[r][i].layer, idx |-> 0, res |-> "ok"]
        /\ \A l \in 1..3 :
               (\E i \in DOMAIN log[r] : log[r][i] = [layer |-> l, idx |-> 0, res |-> "fail"]) =>
                   /\ \A i \in DOMAIN log[r] : log[r][i].layer = l => log[r][i].idx = 0
                   /\ stageResult[r][l] = "false"
                   /\ ~overall[r]

\* C17 witness: the CREATE SCHEMA of silver failed after a bronze stage that
\* succeeded; the run has returned with five statements submitted.
C17_Witness ==
    \E r \in Runs :
        /\ pc[r] = "returned"
        /\ Len(log[r]) = 5
        /\ log[r][5] = [layer |-> 2, idx |-> 0, res |-> "fail"]
        /\ stageResult[r][1] = "true"
        /\ stageResult[r][2] = "false"

\* ------------------------------------------------------------------ claims: generator to gold

\* The run over the generated files has succeeded in all three stages.
RunSucceeded(r) ==
    /\ pc[r] \in {"verify", "returned"}
    /\ overall[r]
    /\ \A l \in 1..3 : stageResult[r][l] = "true"

\* C19: after a successful run over the files of a generated dataset, every
\* generated sale is a row of silver.sales, the product of every generated sale is
\* a row of silver.products, and gold.sales_analytics has one row per generated
\* sale, each with a product_name that is not NULL.
C19_GeneratedSalesKeepProduct ==
    (RunSucceeded(1) /\ landing["sales"] = File(sales)) =>
        LET ss == tables["silver"]["sales"].rows
            sp == tables["silver"]["products"].rows
            ga == tables["gold"]["sales_analytics"].rows
        IN  /\ \A i \in DOMAIN sales : \E j \in DOMAIN ss : ss[j] = sales[i]
            /\ \A i \in DOMAIN sales :
                   \E j \in DOMAIN sp : sp[j].product_id = sales[i].product_id
            /\ Len(ga) = Len(sales)
            /\ \A i \in DOMAIN ga :
                   /\ ga[i].product_name # Null
                   /\ \E j \in DOMAIN sales : sales[j].transaction_id = ga[i].transaction_id

\* C19 witness: a successful run over a dataset whose first product is inactive,
\* with two sales of the second product, one of fifty units at 20 % discount: the
\* silver filter has dropped the inactive product and both sales are in gold.
C19_Witness ==
    /\ RunSucceeded(1)
    /\ Len(products) = 2
    /\ products[1].is_active = FALSE
    /\ Len(sales) = 2
    /\ sales[2].quantity = 50
    /\ sales[2].total_amount = 200000
    /\ Len(tables["silver"]["products"].rows) = 1
    /\ Len(tables["bronze"]["products"].rows) = 2
    /\ Len(tables["gold"]["sales_analytics"].rows) = 2

====
